---- MODULE Spec2Model ----
(***************************************************************************)
(* Call-data decoding helpers of src/utils.py: the type-list splitter,     *)
(* the signature extractor, the value post-processor and parse_tx_input.   *)
(* A Python str is a sequence of one-character strings.                    *)
(***************************************************************************)
EXTENDS Integers, Sequences, FiniteSets, TLC

\* ------------------------------------------------------------- bounds
\* longest type-list string given to the splitter
MaxLen == 5
\* longest signature given to the extractor
MaxSigLen == 6
\* most tokens of an arbitrary type string given to the post-processor
MaxTypeLen == 3
\* most nodes (names, arrays, tuples) of a well-formed type given to it
MaxTypeNodes == 3
\* most nodes (scalars, sequences) of a decoded value given to it
MaxValueSize == 3
\* most characters of call-data after the selector's characters
MaxBodyLen == 2
\* most nodes of a value the ABI decoder returns
MaxDecodedSize == 1

\* characters of the modelled strings; "a" stands for any character that is
\* neither whitespace nor one of ( ) , [ ]
Chars == {"(", ")", ",", " ", "[", "]", "a"}

\* ------------------------------------------------------ Python str helpers
Min(a, b) == IF a < b THEN a ELSE b
Max(a, b) == IF a > b THEN a ELSE b

\* a slice bound as Python clamps it: negative counts from the end
PyBound(i, n) == IF i < 0 THEN Max(0, n + i) ELSE Min(i, n)

\* s[a:b], 0-based, end exclusive
PySlice(s, a, b) == SubSeq(s, PyBound(a, Len(s)) + 1, PyBound(b, Len(s)))

\* s.find(ch): 0-based index of the first ch, -1 when absent
PyFind(s, ch) ==
    IF \E i \in 1..Len(s) : s[i] = ch
    THEN (CHOOSE i \in 1..Len(s) : s[i] = ch /\ \A j \in 1..(i-1) : s[j] # ch) - 1
    ELSE -1

\* s.rfind(ch): 0-based index of the last ch, -1 when absent
PyRFind(s, ch) ==
    IF \E i \in 1..Len(s) : s[i] = ch
    THEN (CHOOSE i \in 1..Len(s) : s[i] = ch /\ \A j \in (i+1)..Len(s) : s[j] # ch) - 1
    ELSE -1

RECURSIVE LStrip(_)
LStrip(s) == IF s # <<>> /\ Head(s) = " " THEN LStrip(Tail(s)) ELSE s

RECURSIVE RStrip(_)
RStrip(s) ==
    IF s # <<>> /\ s[Len(s)] = " " THEN RStrip(SubSeq(s, 1, Len(s) - 1)) ELSE s

\* s.strip()
Strip(s) == LStrip(RStrip(s))

\* s.replace(" ", "")
RemoveSpaces(s) == SelectSeq(s, LAMBDA c : c # " ")

StartsWith(s, p) == Len(s) >= Len(p) /\ SubSeq(s, 1, Len(p)) = p
EndsWith(s, p) == Len(s) >= Len(p) /\ SubSeq(s, Len(s) - Len(p) + 1, Len(s)) = p

\* sep.join(list)
RECURSIVE Join(_, _)
Join(list, sep) ==
    IF list = <<>> THEN <<>>
    ELSE IF Len(list) = 1 THEN list[1]
    ELSE list[1] \o sep \o Join(Tail(list), sep)

\* ------------------------------------------------ _split_top_level_args
\* the loop state before the first character (line 13)
SplitStart == [parts |-> <<>>, buf |-> <<>>, depth |-> 0]

\* SplitStep with the depth test of line 19 left out: every comma separates
SplitStepEveryComma(st, ch) ==
    IF ch = "(" THEN [st EXCEPT !.depth = st.depth + 1, !.buf = Append(st.buf, ch)]
    ELSE IF ch = ")" THEN [st EXCEPT !.depth = st.depth - 1, !.buf = Append(st.buf, ch)]
    ELSE IF ch = ","
         THEN [st EXCEPT !.parts = Append(st.parts, Strip(st.buf)), !.buf = <<>>]
    ELSE [st EXCEPT !.buf = Append(st.buf, ch)]

\* SplitStep with the decrement of line 18 left out: ")" leaves depth alone
SplitStepNoClose(st, ch) ==
    IF ch = "(" THEN [st EXCEPT !.depth = st.depth + 1, !.buf = Append(st.buf, ch)]
    ELSE IF ch = "," /\ st.depth = 0
         THEN [st EXCEPT !.parts = Append(st.parts, Strip(st.buf)), !.buf = <<>>]
    ELSE [st EXCEPT !.buf = Append(st.buf, ch)]

\* one iteration of the for loop (lines 14-23) on character ch
SplitStep(st, ch) ==
    IF ch = "(" THEN [st EXCEPT !.depth = st.depth + 1, !.buf = Append(st.buf, ch)]
    ELSE IF ch = ")" THEN [st EXCEPT !.depth = st.depth - 1, !.buf = Append(st.buf, ch)]
    ELSE IF ch = "," /\ st.depth = 0
         THEN [st EXCEPT !.parts = Append(st.parts, Strip(st.buf)), !.buf = <<>>]
    ELSE [st EXCEPT !.buf = Append(st.buf, ch)]

\* after the loop (lines 24-26): flush the buffer, drop empty parts
SplitFinish(st) ==
    LET flushed == IF st.buf # <<>> THEN Append(st.parts, Strip(st.buf)) ELSE st.parts
    IN SelectSeq(flushed, LAMBDA p : p # <<>>)

RECURSIVE SplitLoop(_, _, _)
SplitLoop(s, i, st) ==
    IF i > Len(s) THEN st ELSE SplitLoop(s, i + 1, SplitStep(st, s[i]))

_split_top_level_args(types_str) == SplitFinish(SplitLoop(types_str, 1, SplitStart))

\* ----------------------------------------- _extract_types_from_signature
\* what a call returns: raised names the exception ("none" when it returns)
Returned(v) == [raised |-> "none", value |-> v]
Raised(e) == [raised |-> e, value |-> <<>>]

\* the function without the r < l test of line 37
ExtractNoOrderTest(signature) ==
    LET l == PyFind(signature, "(")
        r == PyRFind(signature, ")")
        inner == Strip(PySlice(signature, l + 1, r))
    IN IF l = -1 \/ r = -1 THEN Raised("ValueError")
       ELSE IF inner = <<>> THEN Returned(<<>>)
       ELSE Returned(_split_top_level_args(inner))

_extract_types_from_signature(signature) ==
    LET l == PyFind(signature, "(")
        r == PyRFind(signature, ")")
        inner == Strip(PySlice(signature, l + 1, r))
    IN IF l = -1 \/ r = -1 \/ r < l THEN Raised("ValueError")
       ELSE IF inner = <<>> THEN Returned(<<>>)
       ELSE Returned(_split_top_level_args(inner))

\* ------------------------------------------------------ decoded values
\* a Python value: an int, a bytes object, a str, a list or tuple ("seq"), a
\* dict (keys and items in insertion order), a checksummed address, None
PyValue(kind, n, bs, str, keys, items) ==
    [kind |-> kind, n |-> n, bs |-> bs, str |-> str, keys |-> keys, items |-> items]
IntValue(n) == PyValue("int", n, <<>>, <<>>, <<>>, <<>>)
BytesValue(bs) == PyValue("bytes", 0, bs, <<>>, <<>>, <<>>)
StrValue(str) == PyValue("str", 0, <<>>, str, <<>>, <<>>)
SeqValue(items) == PyValue("seq", 0, <<>>, <<>>, <<>>, items)
DictValue(keys, items) == PyValue("dict", 0, <<>>, <<>>, keys, items)
AddressValue(bs) == PyValue("address", 0, bs, <<>>, <<>>, <<>>)
NoneValue == PyValue("none", 0, <<>>, <<>>, <<>>, <<>>)

\* whether `for v in value` and `value[i]` work on the value
Iterable(value) == value.kind \in {"seq", "bytes"}

\* the elements `for v in value` yields: a bytes object yields its ints
Elements(value) ==
    IF value.kind = "bytes" THEN [i \in 1..Len(value.bs) |-> IntValue(value.bs[i])]
    ELSE value.items

HexDigits == <<"0", "1", "2", "3", "4", "5", "6", "7", "8", "9", "a", "b", "c", "d", "e", "f">>

\* bytes.hex()
RECURSIVE BytesHex(_)
BytesHex(bs) ==
    IF bs = <<>> THEN <<>>
    ELSE <<HexDigits[(Head(bs) \div 16) + 1], HexDigits[(Head(bs) % 16) + 1]>>
         \o BytesHex(Tail(bs))

\* str(i) of an int i >= 0
RECURSIVE Decimal(_)
Decimal(i) ==
    IF i < 10 THEN <<HexDigits[i + 1]>>
    ELSE Decimal(i \div 10) \o <<HexDigits[(i % 10) + 1]>>

\* --------------------------------------------------- _postprocess_value
AddressName == <<"a", "d", "d", "r", "e", "s", "s">>
BytesName == <<"b", "y", "t", "e", "s">>

\* what a call of _postprocess_value gives: the exception raised ("none"
\* when it returns), the value returned, and two observations of the
\* recursion below it: depth, the longest chain of nested recursive calls,
\* and shorter, whether every recursive call got a type string strictly
\* shorter than its caller's
PostReturned(v, depth, shorter) ==
    [raised |-> "none", value |-> v, depth |-> depth, shorter |-> shorter]
PostRaised(e, depth, shorter) ==
    [raised |-> e, value |-> NoneValue, depth |-> depth, shorter |-> shorter]

\* eth_utils.to_checksum_address (line 67): external; it takes the raw
\* address bytes and rejects what is no address
to_checksum_address(value) ==
    IF value.kind = "bytes" THEN PostReturned(AddressValue(value.bs), 0, TRUE)
    ELSE PostRaised("TypeError", 0, TRUE)

\* '0x' + value.hex() (lines 70 and 72): only bytes have the hex method used
HexOf(value) ==
    IF value.kind = "bytes"
    THEN PostReturned(StrValue(<<"0", "x">> \o BytesHex(value.bs)), 0, TRUE)
    ELSE PostRaised("AttributeError", 0, TRUE)

\* the key f"_{i}" of line 63, with a key counted from 1
TupleKeyFromOne(i) == <<"_">> \o Decimal(i + 1)

\* the key f"_{i}" of line 63
TupleKey(i) == <<"_">> \o Decimal(i)

\* the base type with the text from the first "[" on removed
ArrayBaseFirstBracket(t) == PySlice(t, 0, PyFind(t, "["))

\* the base type of line 57 with nothing removed
ArrayBaseWhole(t) == t

\* line 57: the text before the last "["
ArrayBase(t) == PySlice(t, 0, PyRFind(t, "["))

\* a comprehension's state: the exception that ended it, the items built so
\* far, and the observations of the calls made so far
StartAcc == [raised |-> "none", out |-> <<>>, depth |-> 0, shorter |-> TRUE]

\* the comprehension after one more recursive call, made with type string
\* sub by a caller whose type string is sol_type, gave r
AfterCall(acc, sol_type, sub, r) ==
    [raised |-> r.raised,
     out |-> IF r.raised = "none" THEN Append(acc.out, r.value) ELSE acc.out,
     depth |-> Max(acc.depth, 1 + r.depth),
     shorter |-> acc.shorter /\ r.shorter /\ Len(sub) < Len(sol_type)]

RECURSIVE _postprocess_value(_, _)
RECURSIVE RenderArray(_, _, _, _, _)
RECURSIVE RenderTuple(_, _, _, _, _)

\* line 58: [_postprocess_value(base, v) for v in value], from item i on
RenderArray(sol_type, base, items, i, acc) ==
    IF i > Len(items) \/ acc.raised # "none" THEN acc
    ELSE RenderArray(sol_type, base, items, i + 1,
             AfterCall(acc, sol_type, base, _postprocess_value(base, items[i])))

\* line 63: {f"_{i}": _postprocess_value(subtypes[i], value[i]) for i in
\* range(len(subtypes))}, from index i (0-based) on
RenderTuple(sol_type, subtypes, value, i, acc) ==
    IF i >= Len(subtypes) \/ acc.raised # "none" THEN acc
    ELSE IF ~Iterable(value) THEN [acc EXCEPT !.raised = "TypeError"]
    ELSE IF i >= Len(Elements(value)) THEN [acc EXCEPT !.raised = "IndexError"]
    ELSE RenderTuple(sol_type, subtypes, value, i + 1,
             AfterCall(acc, sol_type, subtypes[i + 1],
                       _postprocess_value(subtypes[i + 1], Elements(value)[i + 1])))

_postprocess_value(sol_type, value) ==
    LET t == RemoveSpaces(sol_type)
    IN IF EndsWith(t, <<"]">>)
       THEN IF ~Iterable(value) THEN PostRaised("TypeError", 0, TRUE)
            ELSE LET r == RenderArray(sol_type, ArrayBase(t), Elements(value), 1, StartAcc)
                 IN IF r.raised # "none" THEN PostRaised(r.raised, r.depth, r.shorter)
                    ELSE PostReturned(SeqValue(r.out), r.depth, r.shorter)
       ELSE IF StartsWith(t, <<"(">>) /\ EndsWith(t, <<")">>)
       THEN LET subtypes == _split_top_level_args(PySlice(t, 1, -1))
                r == RenderTuple(sol_type, subtypes, value, 0, StartAcc)
            IN IF r.raised # "none" THEN PostRaised(r.raised, r.depth, r.shorter)
               ELSE PostReturned(
                        DictValue([i \in 1..Len(subtypes) |-> TupleKey(i - 1)], r.out),
                        r.depth, r.shorter)
       ELSE IF t = AddressName THEN to_checksum_address(value)
       ELSE IF StartsWith(t, BytesName) /\ t # BytesName THEN HexOf(value)
       ELSE IF t = BytesName THEN HexOf(value)
       ELSE PostReturned(value, 0, TRUE)

\* ------------------------------------------------------- parse_tx_input
\* number of hex characters of a selector (lines 85, 87, 88)
SelectorLen == 8

UpperHex == <<"0", "1", "2", "3", "4", "5", "6", "7", "8", "9", "A", "B", "C", "D", "E", "F">>

IsHexDigit(c) == \E i \in 1..16 : HexDigits[i] = c \/ UpperHex[i] = c
HexValue(c) == (CHOOSE i \in 1..16 : HexDigits[i] = c \/ UpperHex[i] = c) - 1

\* bytes.fromhex (line 89): two hex digits of either case per byte, ASCII
\* whitespace skipped between bytes; raised is "ValueError" on anything else
RECURSIVE FromHex(_, _)
FromHex(h, acc) ==
    IF h = <<>> THEN [raised |-> "none", bytes |-> acc]
    ELSE IF Head(h) = " " THEN FromHex(Tail(h), acc)
    ELSE IF Len(h) >= 2 /\ IsHexDigit(h[1]) /\ IsHexDigit(h[2])
         THEN FromHex(SubSeq(h, 3, Len(h)), Append(acc, 16 * HexValue(h[1]) + HexValue(h[2])))
    ELSE [raised |-> "ValueError", bytes |-> <<>>]

\* lines 83-84: the call-data without a leading "0x"
StripPrefix(hex) == IF StartsWith(hex, <<"0", "x">>) THEN PySlice(hex, 2, Len(hex)) ELSE hex

\* the test of line 85 with the selector's 4 bytes taken for its length
TooShortInBytes(hex) == Len(hex) < SelectorLen \div 2

\* line 85: too short to hold a selector
TooShort(hex) == Len(hex) < SelectorLen

\* line 87
SelectorOf(hex) == <<"0", "x">> \o PySlice(hex, 0, SelectorLen)

\* the body of line 88 with the slice started one character early
BodyOffByOne(hex) == PySlice(hex, SelectorLen - 1, Len(hex))

\* line 88
BodyOf(hex) == PySlice(hex, SelectorLen, Len(hex))

\* f_selector_dict (lines 139-170), the entries the model keeps
Entry(name, sig) == [found |-> TRUE, name |-> name, signature |-> sig]
NoEntry == [found |-> FALSE, name |-> <<>>, signature |-> <<>>]

f_selector_dict ==
    (<<"0", "x">> \o <<"a", "9", "0", "5", "9", "c", "b", "b">> :> Entry(<<"t", "r", "a", "n", "s", "f", "e", "r">>, <<"t", "r", "a", "n", "s", "f", "e", "r">> \o <<"(", "a", "d", "d", "r", "e", "s", "s", ",", "u", "i", "n", "t", "2", "5", "6", ")">>))
    @@ (<<"0", "x">> \o <<"4", "8", "c", "8", "9", "4", "9", "1">> :> Entry(<<"u", "n", "l", "o", "c", "k">>, <<"u", "n", "l", "o", "c", "k">> \o <<"(", "b", "y", "t", "e", "s", ")">>))
    @@ (<<"0", "x">> \o <<"d", "0", "c", "9", "3", "a", "7", "c">> :> Entry(<<"t", "i", "c", "k", "S", "p", "a", "c", "i", "n", "g">>, <<"t", "i", "c", "k", "S", "p", "a", "c", "i", "n", "g">> \o <<"(", ")">>))

\* selectors.get(selector) (line 91): None when the key is absent
DictGet(selectors, key) == IF key \in DOMAIN selectors THEN selectors[key] ELSE NoEntry

\* a Python exception, and none
Exception(type, msg) == [type |-> type, msg |-> msg]
NoException == Exception("none", "")

\* the returned dict: fields names the keys it has
NoResult ==
    [fields |-> {}, selector |-> <<>>, known |-> FALSE, error |-> "", name |-> <<>>,
     signature |-> <<>>, arg_types |-> <<>>, args_decoded |-> <<>>]

\* lines 93-97
UnknownResult(selector) ==
    [NoResult EXCEPT !.fields = {"selector", "known", "error"}, !.selector = selector,
                     !.known = FALSE, !.error = "Unknown function selector"]

\* lines 105-112 and 122-129
KnownResult(selector, entry, types, pretty) ==
    [NoResult EXCEPT !.fields = {"selector", "known", "name", "signature",
                                 "arg_types", "args_decoded"},
                     !.selector = selector, !.known = TRUE, !.name = entry.name,
                     !.signature = entry.signature, !.arg_types = types,
                     !.args_decoded = pretty]

\* lines 118-120: the loop over zip(arg_types, decoded), from pair i on
RECURSIVE PostProcessArgs(_, _, _, _)
PostProcessArgs(types, vals, i, acc) ==
    IF i > Min(Len(types), Len(vals)) \/ acc.raised # "none" THEN acc
    ELSE LET r == _postprocess_value(types[i], vals[i])
         IN PostProcessArgs(types, vals, i + 1,
                [raised |-> r.raised,
                 out |-> IF r.raised = "none" THEN Append(acc.out, r.value) ELSE acc.out])

\* --------------------------------------------------------------- state
VARIABLES
    pc,         \* position of the running call
    elems,      \* the type strings that were joined into types_str
    types_str,  \* the splitter's argument
    pos,        \* number of characters the splitter's loop has consumed
    scan,       \* the splitter's locals: parts, buf, depth
    parts,      \* the splitter's return value
    signature,  \* the extractor's argument
    extracted,  \* what the extractor returned or raised
    sol_type,   \* the post-processor's type string
    value,      \* the post-processor's decoded value
    rendered,   \* what the post-processor returned or raised
    calldata,   \* parse_tx_input's argument as the caller gave it
    locals,     \* parse_tx_input's locals: calldata_hex, selector, body_hex,
                \* body_bytes, entry, arg_types, decoded
    calls,      \* the conversions, lookups and decodings the call has made
    result,     \* the dict parse_tx_input returned
    failure     \* the exception parse_tx_input raised

vars == <<pc, elems, types_str, pos, scan, parts, signature, extracted,
          sol_type, value, rendered, calldata, locals, calls, result, failure>>

splitVars == <<elems, types_str, pos, scan, parts>>
extractVars == <<signature, extracted>>
postVars == <<sol_type, value, rendered>>
parseVars == <<calldata, locals, calls, result, failure>>

\* the variables of the calls a specification does not make
NoSplit ==
    elems = <<>> /\ types_str = <<>> /\ pos = 0 /\ scan = SplitStart /\ parts = <<>>
NoExtract == signature = <<>> /\ extracted = Returned(<<>>)
NoPost ==
    sol_type = <<>> /\ value = NoneValue /\ rendered = PostReturned(NoneValue, 0, TRUE)

\* the locals before the first assignment
NoLocals ==
    [calldata_hex |-> <<>>, selector |-> <<>>, body_hex |-> <<>>, body_bytes |-> <<>>,
     entry |-> NoEntry, arg_types |-> <<>>, decoded |-> <<>>]
NoParse ==
    /\ calldata = <<>> /\ locals = NoLocals /\ calls = <<>>
    /\ result = NoResult /\ failure = NoException

\* the lists of strings whose join with "," has at most n characters, each
\* drawn as its join with the separating commas marked "|"
Marked(n) == UNION {[1..k -> Chars \cup {"|"}] : k \in 0..n}

\* the list a marked string stands for
RECURSIVE Unmark(_, _, _)
Unmark(m, i, cur) ==
    IF i > Len(m) THEN <<cur>>
    ELSE IF m[i] = "|" THEN <<cur>> \o Unmark(m, i + 1, <<>>)
    ELSE Unmark(m, i + 1, Append(cur, m[i]))

InitSplit ==
    /\ \E m \in Marked(MaxLen) :
         elems \in {Unmark(m, 1, <<>>)} \cup (IF m = <<>> THEN {<<>>} ELSE {})
    /\ types_str = Join(elems, <<",">>)
    /\ pc = "scan"
    /\ pos = 0
    /\ scan = SplitStart
    /\ parts = <<>>
    /\ NoExtract
    /\ NoPost
    /\ NoParse

\* lines 14-23: the loop consumes the next character
Scan ==
    /\ pc = "scan"
    /\ pos < Len(types_str)
    /\ scan' = SplitStep(scan, types_str[pos + 1])
    /\ pos' = pos + 1
    /\ UNCHANGED <<pc, elems, types_str, parts, extractVars, postVars, parseVars>>

\* lines 24-26: the loop is over, the result is returned
Return ==
    /\ pc = "scan"
    /\ pos = Len(types_str)
    /\ parts' = SplitFinish(scan)
    /\ pc' = "done"
    /\ UNCHANGED <<elems, types_str, pos, scan, extractVars, postVars, parseVars>>

NextSplit == Scan \/ Return

SpecSplit == InitSplit /\ [][NextSplit]_vars

\* the stepwise loop and the operator used by the callers agree
SplitAgrees == pc = "done" => parts = _split_top_level_args(types_str)

\* ------------------------------------------------- Type Strings (spec 3)
\* lists over T, possibly empty, whose join with "," has at most n characters
RECURSIVE ListsOver(_, _)
ListsOver(T, n) ==
    {<<>>} \cup {<<t>> : t \in {u \in T : Len(u) <= n}}
    \cup UNION {LET rest == ListsOver(T, n - k - 1) \ {<<>>}
                IN {<<t>> \o r : t \in {u \in T : Len(u) = k}, r \in rest}
                : k \in 0..(n - 1)}

\* one more layer of structure: arrays B[] and B[k], tuples (T1,...,Tn)
GrowTypes(T, n) ==
    LET grown == T \cup {t \o <<"[", "]">> : t \in T}
                   \cup {t \o <<"[", "a", "]">> : t \in T}
                   \cup {<<"(">> \o Join(l, <<",">>) \o <<")">> : l \in ListsOver(T, n - 2)}
    IN {t \in grown : Len(t) <= n}

RECURSIVE TypeStringsAfter(_, _)
TypeStringsAfter(rounds, n) ==
    IF rounds = 0 THEN {[i \in 1..k |-> "a"] : k \in 1..n}
    ELSE GrowTypes(TypeStringsAfter(rounds - 1, n), n)

\* the well-formed Type Strings of at most n characters: elementary names,
\* tuples and arrays, nested (each layer adds at least two characters)
TypeStrings(n) == TypeStringsAfter(n \div 2, n)

SplitTypeStrings == TypeStrings(MaxLen)

\* number of "(" minus number of ")" among the first i characters of s
RECURSIVE ParenBalance(_, _)
ParenBalance(s, i) ==
    IF i = 0 THEN 0
    ELSE ParenBalance(s, i - 1)
         + (IF s[i] = "(" THEN 1 ELSE IF s[i] = ")" THEN -1 ELSE 0)

NoTopLevelComma(s) ==
    \A i \in 1..Len(s) : s[i] = "," => ParenBalance(s, i - 1) # 0

\* C1: when the joined elements are Type Strings without a top-level
\* comma, the splitter applied to their join with "," returns exactly the
\* list of elements: same elements, same order, same length.
C1_RoundTrip ==
    (pc = "done" /\ \A i \in 1..Len(elems) :
                       elems[i] \in SplitTypeStrings /\ NoTopLevelComma(elems[i]))
    => parts = elems

\* a round trip over two elements
C1_Witness ==
    /\ pc = "done"
    /\ elems = << <<"(", "a", ")">>, <<"a">> >>
    /\ parts = elems


\* ---------------------------------------------------------------- C10
\* the loop is about to read a comma
AtComma == pc = "scan" /\ pos < Len(types_str) /\ types_str[pos + 1] = ","

\* the character at 1-based position i lies between a "(" and the ")" that
\* matches it
InsideTuple(s, i) ==
    \E j \in 1..(i - 1) : \E k \in (i + 1)..Len(s) :
        /\ s[j] = "(" /\ s[k] = ")"
        /\ ParenBalance(s, k) = ParenBalance(s, j - 1)
        /\ \A m \in j..(k - 1) : ParenBalance(s, m) > ParenBalance(s, j - 1)

\* the character at 1-based position i lies between a "[" and the next "]"
InsideBrackets(s, i) ==
    \E j \in 1..(i - 1) : \E k \in (i + 1)..Len(s) :
        /\ s[j] = "[" /\ s[k] = "]"
        /\ \A m \in (j + 1)..(k - 1) : s[m] \notin {"[", "]"}

\* no prefix of the first i characters closes more parentheses than it opens
NeverNegative(s, i) == \A m \in 0..i : ParenBalance(s, m) >= 0

\* this step ends the current element / keeps the comma in the element
EndsElement == Len(scan'.parts) = Len(scan.parts) + 1 /\ scan'.buf = <<>>
KeepsComma == scan'.parts = scan.parts /\ scan'.buf = Append(scan.buf, ",")

\* C10 as stated: a comma ends the current element exactly when the
\* parenthesis depth is 0 at that comma, and a comma inside a nested tuple
\* or inside the brackets of an array dimension is never a separator.
C10_Original ==
    [][AtComma =>
        /\ EndsElement <=> ParenBalance(types_str, pos) = 0
        /\ (InsideTuple(types_str, pos + 1) \/ InsideBrackets(types_str, pos + 1))
           => KeepsComma]_vars

\* C10 amended: a comma ends the current element exactly when the number of
\* "(" minus the number of ")" read so far is 0, and stays in the element
\* otherwise; so a comma inside a tuple stays in its element when no prefix
\* closes more parentheses than it opens, while brackets are not counted: a
\* comma inside [...] at parenthesis depth 0 ends the element.
C10_DepthZeroCommas ==
    [][AtComma =>
        /\ EndsElement <=> ParenBalance(types_str, pos) = 0
        /\ KeepsComma <=> ParenBalance(types_str, pos) # 0
        /\ (InsideTuple(types_str, pos + 1) /\ NeverNegative(types_str, pos))
           => KeepsComma
        /\ (InsideBrackets(types_str, pos + 1) /\ ParenBalance(types_str, pos) = 0)
           => EndsElement]_vars

\* a comma kept inside a tuple and a comma that separated, in one scan
C10_Witness ==
    /\ pc = "done"
    /\ types_str = <<"(", ",", ")", ",", "a">>
    /\ parts = << <<"(", ",", ")">>, <<"a">> >>

\* =================================================== the signature extractor
InitExtract ==
    /\ \E k \in 0..MaxSigLen : signature \in [1..k -> Chars]
    /\ extracted = Returned(<<>>)
    /\ pc = "call"
    /\ NoSplit
    /\ NoPost
    /\ NoParse

\* lines 35-42: one call of the extractor
Extract ==
    /\ pc = "call"
    /\ extracted' = _extract_types_from_signature(signature)
    /\ pc' = "done"
    /\ UNCHANGED <<signature, splitVars, postVars, parseVars>>

NextExtract == Extract

SpecExtract == InitExtract /\ [][NextExtract]_vars

\* 1-based positions of the first "(" and of the last ")" of s
FirstOpen(s) == CHOOSE i \in 1..Len(s) : s[i] = "(" /\ \A j \in 1..(i - 1) : s[j] # "("
LastClose(s) == CHOOSE i \in 1..Len(s) : s[i] = ")" /\ \A j \in (i + 1)..Len(s) : s[j] # ")"

HasChar(s, c) == \E i \in 1..Len(s) : s[i] = c

Malformed(s) ==
    \/ ~HasChar(s, "(")
    \/ ~HasChar(s, ")")
    \/ LastClose(s) < FirstOpen(s)

\* the text strictly between the first "(" and the last ")"
Between(s) == [i \in 1..(LastClose(s) - FirstOpen(s) - 1) |-> s[FirstOpen(s) + i]]

\* C6: the extractor raises exactly when the signature has no "(", or no
\* ")", or its last ")" lies before its first "("; otherwise it returns the
\* empty list when the text strictly between them is empty, and the
\* splitter's result on that text when it is not.
C6_ExtractorFailure ==
    pc = "done" =>
        /\ extracted.raised # "none" <=> Malformed(signature)
        /\ Malformed(signature) => extracted.raised = "ValueError"
        /\ ~Malformed(signature) =>
             extracted.value = IF Between(signature) = <<>> THEN <<>>
                               ELSE _split_top_level_args(Between(signature))

\* a signature with two arguments was split
C6_Witness ==
    /\ pc = "done"
    /\ signature = <<"a", "(", "a", ",", "a", ")">>
    /\ extracted = Returned(<< <<"a">>, <<"a">> >>)

\* ====================================================== the post-processor
\* the pieces type strings are drawn from: the structure characters, a
\* space, an array length and the names the code tells apart
TypeTokens ==
    {<<"(">>, <<")">>, <<",">>, <<" ">>, <<"[">>, <<"]">>, <<"1">>,
     AddressName, BytesName, <<"b", "o", "o", "l">>}

RECURSIVE Flatten(_)
Flatten(toks) == IF toks = <<>> THEN <<>> ELSE Head(toks) \o Flatten(Tail(toks))

\* a well-formed type with its nesting depth (array dimensions plus tuple
\* levels on the deepest path), by number of nodes
TypeTree(str, nd) == [s |-> str, d |-> nd]

ElementaryTrees ==
    {TypeTree(n, 0) : n \in {AddressName, BytesName, BytesName \o <<"1">>, <<"b", "o", "o", "l">>}}

RECURSIVE MaxDepthOf(_)
MaxDepthOf(l) == IF l = <<>> THEN 0 ELSE Max(Head(l).d, MaxDepthOf(Tail(l)))

TupleTree(l) ==
    TypeTree(<<"(">> \o Join([i \in 1..Len(l) |-> l[i].s], <<",">>) \o <<")">>,
             1 + MaxDepthOf(l))

RECURSIVE TypeTreesOfSize(_)
RECURSIVE TypeTreeListsOfSize(_)

\* the non-empty lists of well-formed types with m nodes in all
TypeTreeListsOfSize(m) ==
    {<<t>> : t \in TypeTreesOfSize(m)}
    \cup UNION {LET rest == TypeTreeListsOfSize(m - j)
                IN {<<t>> \o r : t \in TypeTreesOfSize(j), r \in rest}
                : j \in 1..(m - 1)}

TypeTreesOfSize(k) ==
    IF k = 1 THEN ElementaryTrees \cup {TupleTree(<<>>)}
    ELSE {TypeTree(t.s \o <<"[", "]">>, t.d + 1) : t \in TypeTreesOfSize(k - 1)}
         \cup {TypeTree(t.s \o <<"[", "1", "]">>, t.d + 1) : t \in TypeTreesOfSize(k - 1)}
         \cup {TupleTree(l) : l \in TypeTreeListsOfSize(k - 1)}

TypeTrees == UNION {TypeTreesOfSize(k) : k \in 1..MaxTypeNodes}

\* the decoded values with k nodes
RECURSIVE ValuesOfSize(_)
RECURSIVE ValueListsOfSize(_)

ValueListsOfSize(m) ==
    IF m = 0 THEN {<<>>}
    ELSE UNION {LET rest == ValueListsOfSize(m - j)
                IN {<<v>> \o r : v \in ValuesOfSize(j), r \in rest}
                : j \in 1..m}

ValuesOfSize(k) ==
    (IF k = 1 THEN {IntValue(7), BytesValue(<<171>>)} ELSE {})
    \cup {SeqValue(l) : l \in ValueListsOfSize(k - 1)}

Values == UNION {ValuesOfSize(k) : k \in 1..MaxValueSize}

InitPost ==
    /\ \/ \E k \in 0..MaxTypeLen : \E toks \in [1..k -> TypeTokens] :
            sol_type = Flatten(toks)
       \/ \E t \in TypeTrees : sol_type = t.s
    /\ value \in Values
    /\ rendered = PostReturned(NoneValue, 0, TRUE)
    /\ pc = "call"
    /\ NoSplit
    /\ NoExtract
    /\ NoParse

\* lines 52-74: one call of the post-processor, recursion included
Post ==
    /\ pc = "call"
    /\ rendered' = _postprocess_value(sol_type, value)
    /\ pc' = "done"
    /\ UNCHANGED <<sol_type, value, splitVars, extractVars, parseVars>>

NextPost == Post

SpecPost == InitPost /\ [][NextPost]_vars

\* the type string starts with "(" and ends with ")" (so not with "]")
IsTupleType(s) == s # <<>> /\ s[1] = "(" /\ s[Len(s)] = ")"

\* the text strictly inside the outer parentheses
Interior(s) == [i \in 1..(Len(s) - 2) |-> s[i + 1]]

\* the member types the splitter finds in the interior
Members(s) == _split_top_level_args(Interior(s))

\* ----------------------------------------------------------------- C3
\* C3 as stated: when the post-processor handles a tuple type whose member
\* count differs from the number of elements of the decoded value, in
\* either direction, the call fails and returns no mapping.
C3_Original ==
    (/\ pc = "done"
     /\ IsTupleType(sol_type)
     /\ value.kind = "seq"
     /\ Len(value.items) # Len(Members(sol_type)))
    => rendered.raised # "none"

\* ----------------------------------------------------------------- C5
CountOf(s, c) == Cardinality({i \in 1..Len(s) : s[i] = c})

MaxParenDepth(s) ==
    CHOOSE d \in 0..Len(s) :
        /\ \E i \in 0..Len(s) : ParenBalance(s, i) = d
        /\ \A i \in 0..Len(s) : ParenBalance(s, i) <= d

\* the nesting depth of each well-formed type string, as the grammar builds it
NestingDepth ==
    [s \in {t.s : t \in TypeTrees} |-> (CHOOSE t \in TypeTrees : t.s = s).d]

\* C5: for every type string, well formed or not, and every decoded value
\* the post-processor terminates: each recursive call gets a strictly
\* shorter type string, and the recursion is never deeper than the nesting
\* depth of the type string, its array dimensions plus its tuple levels.
C5_Termination ==
    pc = "done" =>
        /\ rendered.shorter
        /\ rendered.depth <= CountOf(sol_type, "]") + MaxParenDepth(sol_type)
        /\ sol_type \in DOMAIN NestingDepth => rendered.depth <= NestingDepth[sol_type]

\* an array of arrays was rendered through two nested recursive calls
C5_Witness ==
    /\ pc = "done"
    /\ sol_type = <<"b", "o", "o", "l">> \o <<"[", "]", "[", "]">>
    /\ value = SeqValue(<<SeqValue(<<IntValue(7)>>)>>)
    /\ rendered.raised = "none"
    /\ rendered.depth = 2

\* ----------------------------------------------------------------- C8
\* the rendering of element i of the value under member type i
MemberRendering(i) == _postprocess_value(Members(sol_type)[i], Elements(value)[i])

\* C8: for a type string that starts with "(" and ends with ")" and a
\* decoded value with as many elements as the interior has member types,
\* the post-processor returns a mapping whose keys are _0, _1, ... in
\* declaration order, the value under _i being the rendering of element i
\* under member type i; when one of those renderings raises, so does the call.
C8_TupleRendering ==
    (/\ pc = "done"
     /\ IsTupleType(sol_type)
     /\ Iterable(value)
     /\ Len(Elements(value)) = Len(Members(sol_type)))
    => LET n == Len(Members(sol_type))
       IN IF \A i \in 1..n : MemberRendering(i).raised = "none"
          THEN /\ rendered.raised = "none"
               /\ rendered.value.kind = "dict"
               /\ rendered.value.keys = [i \in 1..n |-> <<"_", HexDigits[i]>>]
               /\ rendered.value.items = [i \in 1..n |-> MemberRendering(i).value]
          ELSE rendered.raised # "none"

\* a two-member tuple was rendered, its second member as hex
C8_Witness ==
    /\ pc = "done"
    /\ sol_type = <<"(">> \o <<"b", "o", "o", "l">> \o <<",">> \o BytesName \o <<")">>
    /\ value = SeqValue(<<IntValue(7), BytesValue(<<171>>)>>)
    /\ rendered.raised = "none"
    /\ rendered.value =
         DictValue(<< <<"_", "0">>, <<"_", "1">> >>,
                   <<IntValue(7), StrValue(<<"0", "x", "a", "b">>)>>)

\* ----------------------------------------------------------------- C9
\* the type string ends with a bracket pair [...]: a "[", no bracket after
\* it, and the closing "]"
HasBracketSuffix(s) ==
    /\ s # <<>> /\ s[Len(s)] = "]"
    /\ \E j \in 1..(Len(s) - 1) :
         s[j] = "[" /\ \A m \in (j + 1)..(Len(s) - 1) : s[m] \notin {"[", "]"}

\* the type string without its rightmost bracket pair
ElementType(s) ==
    LET j == CHOOSE j \in 1..(Len(s) - 1) :
                 s[j] = "[" /\ \A m \in (j + 1)..(Len(s) - 1) : s[m] # "["
    IN [i \in 1..(j - 1) |-> s[i]]

MaxOver(S) == CHOOSE m \in S : \A x \in S : x <= m

ItemRendering(i) == _postprocess_value(ElementType(sol_type), Elements(value)[i])

\* C9: for a type string ending with a bracket pair the post-processor
\* removes only the rightmost pair to get the element type and returns a
\* sequence as long as the decoded value whose item i is the rendering of
\* decoded item i under the element type; this rule goes before the tuple
\* rule, and each array dimension takes one level of recursion.
C9_ArrayRendering ==
    (/\ pc = "done"
     /\ HasBracketSuffix(sol_type)
     /\ Iterable(value))
    => LET n == Len(Elements(value))
       IN IF \A i \in 1..n : ItemRendering(i).raised = "none"
          THEN /\ rendered.raised = "none"
               /\ rendered.value.kind = "seq"
               /\ rendered.value.items = [i \in 1..n |-> ItemRendering(i).value]
               /\ n > 0 => rendered.depth =
                             1 + MaxOver({ItemRendering(i).depth : i \in 1..n})
          ELSE rendered.raised # "none"

\* an array of one-member tuples was rendered as a sequence of mappings
C9_Witness ==
    /\ pc = "done"
    /\ sol_type = <<"(">> \o BytesName \o <<")", "[", "]">>
    /\ value = SeqValue(<<SeqValue(<<BytesValue(<<171>>)>>)>>)
    /\ rendered.raised = "none"
    /\ rendered.value =
         SeqValue(<<DictValue(<< <<"_", "0">> >>, <<StrValue(<<"0", "x", "a", "b">>)>>)>>)

\* ========================================================= parse_tx_input
\* the selectors call-data is built from: the registry's and a foreign one
SelectorTexts == {<<"a", "9", "0", "5", "9", "c", "b", "b">>, <<"4", "8", "c", "8", "9", "4", "9", "1">>, <<"d", "0", "c", "9", "3", "a", "7", "c">>, <<"d", "e", "a", "d", "b", "e", "e", "f">>}

\* the text with its hex letters in upper case
ToUpper(h) ==
    [i \in 1..Len(h) |->
        IF IsHexDigit(h[i]) THEN UpperHex[HexValue(h[i]) + 1] ELSE h[i]]

BodyChars == {"0", "a", "F", "g", " "}

DecodedValues == UNION {ValuesOfSize(k) : k \in 1..MaxDecodedSize}

InitParse ==
    /\ \E prefix \in {<<>>, <<"0", "x">>, <<"0", "X">>} :
       \E text \in SelectorTexts : \E n \in 0..SelectorLen :
       \E upper \in BOOLEAN : \E k \in 0..MaxBodyLen : \E body \in [1..k -> BodyChars] :
           calldata = prefix
                      \o (IF upper THEN ToUpper(SubSeq(text, 1, n)) ELSE SubSeq(text, 1, n))
                      \o body
    /\ locals = [NoLocals EXCEPT !.calldata_hex = calldata]
    /\ calls = <<>>
    /\ result = NoResult
    /\ failure = NoException
    /\ pc = "strip"
    /\ NoSplit
    /\ NoExtract
    /\ NoPost

\* lines 83-84
Strip0x ==
    /\ pc = "strip"
    /\ locals' = [locals EXCEPT !.calldata_hex = StripPrefix(locals.calldata_hex)]
    /\ pc' = "check"
    /\ UNCHANGED <<calldata, calls, result, failure, splitVars, extractVars, postVars>>

\* lines 85-88
CheckLength ==
    /\ pc = "check"
    /\ IF TooShort(locals.calldata_hex)
       THEN /\ failure' = Exception("ValueError", "Calldata too short to contain a selector.")
            /\ pc' = "raised"
            /\ UNCHANGED locals
       ELSE /\ locals' = [locals EXCEPT !.selector = SelectorOf(locals.calldata_hex),
                                        !.body_hex = BodyOf(locals.calldata_hex)]
            /\ pc' = "fromhex"
            /\ UNCHANGED failure
    /\ UNCHANGED <<calldata, calls, result, splitVars, extractVars, postVars>>

\* line 89
ConvertBody ==
    /\ pc = "fromhex"
    /\ calls' = Append(calls, "fromhex")
    /\ LET r == FromHex(locals.body_hex, <<>>)
       IN IF r.raised # "none"
          THEN /\ failure' = Exception(r.raised, "non-hexadecimal number found in fromhex()")
               /\ pc' = "raised"
               /\ UNCHANGED locals
          ELSE /\ locals' = [locals EXCEPT !.body_bytes = r.bytes]
               /\ pc' = "lookup"
               /\ UNCHANGED failure
    /\ UNCHANGED <<calldata, result, splitVars, extractVars, postVars>>

\* lines 91-97
Lookup ==
    /\ pc = "lookup"
    /\ calls' = Append(calls, "get")
    /\ LET entry == DictGet(f_selector_dict, locals.selector)
       IN /\ locals' = [locals EXCEPT !.entry = entry]
          /\ IF ~entry.found
             THEN result' = UnknownResult(locals.selector) /\ pc' = "done"
             ELSE UNCHANGED result /\ pc' = "extract"
    /\ UNCHANGED <<calldata, failure, splitVars, extractVars, postVars>>

\* lines 99-112
ExtractTypes ==
    /\ pc = "extract"
    /\ calls' = Append(calls, "extract")
    /\ LET r == _extract_types_from_signature(locals.entry.signature)
       IN IF r.raised # "none"
          THEN /\ failure' = Exception(r.raised, "Malformed signature")
               /\ pc' = "raised"
               /\ UNCHANGED <<locals, result>>
          ELSE /\ locals' = [locals EXCEPT !.arg_types = r.value]
               /\ UNCHANGED failure
               /\ IF r.value = <<>>
                  THEN /\ result' = KnownResult(locals.selector, locals.entry, <<>>, <<>>)
                       /\ pc' = "done"
                  ELSE UNCHANGED result /\ pc' = "decode"
    /\ UNCHANGED <<calldata, splitVars, extractVars, postVars>>

\* line 115: eth_abi's decode is external; it raises, or returns one value
\* for each type
Decode ==
    /\ pc = "decode"
    /\ calls' = Append(calls, "abi_decode")
    /\ \E ok \in BOOLEAN :
         IF ok
         THEN /\ \E vals \in [1..Len(locals.arg_types) -> DecodedValues] :
                    locals' = [locals EXCEPT !.decoded = vals]
              /\ pc' = "post"
              /\ UNCHANGED failure
         ELSE /\ failure' = Exception("DecodingError", "")
              /\ pc' = "raised"
              /\ UNCHANGED locals
    /\ UNCHANGED <<calldata, result, splitVars, extractVars, postVars>>

\* lines 118-129
PostProcess ==
    /\ pc = "post"
    /\ calls' = Append(calls, "postprocess")
    /\ LET r == PostProcessArgs(locals.arg_types, locals.decoded, 1,
                                [raised |-> "none", out |-> <<>>])
       IN IF r.raised # "none"
          THEN failure' = Exception(r.raised, "") /\ pc' = "raised" /\ UNCHANGED result
          ELSE /\ result' = KnownResult(locals.selector, locals.entry,
                                        locals.arg_types, r.out)
               /\ pc' = "done"
               /\ UNCHANGED failure
    /\ UNCHANGED <<calldata, locals, splitVars, extractVars, postVars>>

NextParse ==
    \/ Strip0x
    \/ CheckLength
    \/ ConvertBody
    \/ Lookup
    \/ ExtractTypes
    \/ Decode
    \/ PostProcess

SpecParse == InitParse /\ [][NextParse]_vars

\* the call has returned or raised
Finished == pc \in {"done", "raised"}

\* the call-data after the optional "0x" prefix is removed
AfterPrefix(c) ==
    IF Len(c) >= 2 /\ c[1] = "0" /\ c[2] = "x" THEN [i \in 1..(Len(c) - 2) |-> c[i + 2]]
    ELSE c

\* the same with the prefix accepted in either case
AfterPrefixAnyCase(c) ==
    IF Len(c) >= 2 /\ c[1] = "0" /\ c[2] \in {"x", "X"}
    THEN [i \in 1..(Len(c) - 2) |-> c[i + 2]]
    ELSE c

FirstChars(h, n) == [i \in 1..n |-> h[i]]
RestChars(h, n) == [i \in 1..(Len(h) - n) |-> h[i + n]]

\* the text with its hex letters in lower case
ToLower(h) ==
    [i \in 1..Len(h) |->
        IF IsHexDigit(h[i]) THEN HexDigits[HexValue(h[i]) + 1] ELSE h[i]]

\* the key under which the code looks the call-data up
WrittenKey(c) == <<"0", "x">> \o FirstChars(AfterPrefix(c), 8)

EvenHex(b) == Len(b) % 2 = 0 /\ \A i \in 1..Len(b) : IsHexDigit(b[i])

UnknownOutcome ==
    /\ pc = "done"
    /\ failure = NoException
    /\ result.known = FALSE
    /\ result.error = "Unknown function selector"

\* ----------------------------------------------------------------- C2
\* C2 as stated: for call-data with at least 8 characters after the prefix
\* whose selector is no key of the registry, parse_tx_input returns a record
\* with known = false and the error text and raises nothing, whatever the
\* body is.
C2_Original ==
    (/\ Finished
     /\ Len(AfterPrefix(calldata)) >= 8
     /\ WrittenKey(calldata) \notin DOMAIN f_selector_dict)
    => UnknownOutcome

\* C2 amended: the same when the body, the characters after the first 8, is
\* an even number of hex digits; the call then never gets past the lookup.
C2_UnknownSelector ==
    (/\ Len(AfterPrefix(calldata)) >= 8
     /\ WrittenKey(calldata) \notin DOMAIN f_selector_dict
     /\ EvenHex(RestChars(AfterPrefix(calldata), 8)))
    => /\ pc \in {"strip", "check", "fromhex", "lookup", "done"}
       /\ Finished => UnknownOutcome

\* an unknown selector with a two-digit body was reported as unknown
C2_Witness ==
    /\ calldata = <<"0", "x">> \o <<"d", "e", "a", "d", "b", "e", "e", "f">> \o <<"a", "F">>
    /\ UnknownOutcome
    /\ result.selector = <<"0", "x">> \o <<"d", "e", "a", "d", "b", "e", "e", "f">>

\* ----------------------------------------------------------------- C4
\* C4 as stated: the selector is looked up under "0x" followed by the first
\* 8 characters of the call-data in lower case, so the letter case of the
\* selector and of the prefix changes neither the entry nor the known flag.
C4_Original ==
    (/\ pc = "done"
     /\ Len(AfterPrefixAnyCase(calldata)) >= 8)
    => LET key == <<"0", "x">> \o ToLower(FirstChars(AfterPrefixAnyCase(calldata), 8))
       IN /\ result.selector = key
          /\ result.known <=> key \in DOMAIN f_selector_dict
          /\ result.known => result.name = f_selector_dict[key].name

\* ----------------------------------------------------------------- C7
\* C7: when fewer than 8 characters remain after the optional "0x" prefix
\* is removed, parse_tx_input raises the too-short error before the body is
\* converted, the registry looked up or the decoder called, and returns no
\* record.
C7_ShortRejected ==
    Len(AfterPrefix(calldata)) < 8 =>
        /\ pc \in {"strip", "check", "raised"}
        /\ calls = <<>>
        /\ result = NoResult
        /\ locals.body_bytes = <<>> /\ locals.entry = NoEntry /\ locals.decoded = <<>>
        /\ pc = "raised" =>
             failure = Exception("ValueError", "Calldata too short to contain a selector.")

\* seven characters after the prefix were rejected
C7_Witness ==
    /\ calldata = <<"0", "x">> \o <<"a", "9", "0", "5", "9", "c", "b">>
    /\ pc = "raised"
    /\ failure.type = "ValueError"
    /\ calls = <<>>
====
